---- MODULE Spec2Model ----
(***************************************************************************)
(* Model of exchange.go (package exchange): the import pipeline.           *)
(*                                                                         *)
(*   Import              buffers the upload, decodes it, preprocesses it   *)
(*                       and starts process in a goroutine                 *)
(*   preprocessXLSXFile  drops empty sheets and empty rows, counts rows    *)
(*   process             one goroutine per data row behind a throttle      *)
(*                       channel, a WaitGroup barrier, then commit or      *)
(*                       rollback of the one transaction                   *)
(*                                                                         *)
(* hasError is read and written by several goroutines without              *)
(* synchronisation.  It is one machine word; the model takes every order   *)
(* of every read/write pair on it (each access is one atomic step).        *)
(***************************************************************************)
EXTENDS Integers, Sequences, FiniteSets, Bags, TLC

(***************************************************************************)
(* Bounds of the model.                                                    *)
(***************************************************************************)
\* sheets of an upload
MaxSheets == 2
\* rows of one sheet of an upload, the header row included
MaxRows == 4
\* rows of a whole upload given to Import
MaxUploadRows == 4
\* rows of a whole file given to preprocessXLSXFile in SpecPre
MaxPreRows == 3
\* cells of one row
MaxCells == 2
\* rows of an upload given to Import that have more than one cell
MaxLongRows == 1
\* applications of preprocessXLSXFile in SpecPre
MaxApply == 2
\* capacities of the throttle and of the status channel in SpecScaled, where
\* the channels are made small enough to fill within the bounds above
ScaledThrottle == 2
ScaledIic == 1
\* entries of a schema given to GetMetaValues in SpecMeta, nested ones included
MaxMetas == 3
\* errors one call of p.Validate() or p.Commit() returns in SpecStages
MaxErrors == 2

(***************************************************************************)
(* Program constants.                                                      *)
(***************************************************************************)
\* throttle := make(chan bool, 20)
ThrottleCap == 20
\* iic = make(chan ImportStatus, 10)
IicCap == 10

(***************************************************************************)
(* Spreadsheet data: a cell is its Value, a row is its Cells, a sheet is   *)
(* [Name, Rows, MaxRow], a file is its Sheets.                             *)
(***************************************************************************)
CellValues == {"", "a"}

SeqsUpTo(S, n) == UNION {[1..k -> S] : k \in 0..n}

\* what xlsx.ReadZip hands over: sheet k of the upload, named by its position
MkFile(rs) == [k \in 1..Len(rs) |-> [Name |-> k, Rows |-> rs[k], MaxRow |-> Len(rs[k])]]

AllRows == SeqsUpTo(CellValues, MaxCells)

Min(a, b) == IF a < b THEN a ELSE b

\* the row lists of the sheets of an upload: at most k sheets of at most
\* MaxRows rows each and n rows in all, each row drawn from R
RECURSIVE SheetRows(_, _, _)
SheetRows(R, k, n) ==
  IF k = 0 THEN {<<>>}
  ELSE {<<>>} \cup
       UNION {{<<rows>> \o rest : rows \in [1..len -> R],
                                  rest \in SheetRows(R, k - 1, n - len)} :
              len \in 0..Min(n, MaxRows)}

(***************************************************************************)
(* preprocessXLSXFile                                                      *)
(***************************************************************************)
\* the inner loop over row.Cells: empty stays true iff every cell is ""
CellsEmpty(cells) == \A j \in 1..Len(cells) : cells[j] = ""

\* a row is appended to nsheet.Rows unless it has no cells or only "" cells
KeepRow(row) == Len(row) # 0 /\ ~CellsEmpty(row)

\* nsheet := *sheet with Rows filtered and MaxRow = len(nsheet.Rows)
PreprocessSheet(sheet) ==
  LET rows == SelectSeq(sheet.Rows, KeepRow)
  IN  [sheet EXCEPT !.Rows = rows, !.MaxRow = Len(rows)]

\* the outer loop: a sheet with len(sheet.Rows) == 0 is skipped, every other
\* sheet is appended to nxf.Sheets after its rows were filtered
RECURSIVE PreprocessSheets(_)
PreprocessSheets(sheets) ==
  IF sheets = <<>> THEN <<>>
  ELSE IF Len(Head(sheets).Rows) = 0 THEN PreprocessSheets(Tail(sheets))
  ELSE <<PreprocessSheet(Head(sheets))>> \o PreprocessSheets(Tail(sheets))

\* totalLines += nsheet.MaxRow for every sheet appended
RECURSIVE SumMaxRow(_)
SumMaxRow(sheets) ==
  IF sheets = <<>> THEN 0 ELSE Head(sheets).MaxRow + SumMaxRow(Tail(sheets))

preprocessXLSXFile(f) ==
  LET nxf == PreprocessSheets(f)
  IN  [totalLines |-> SumMaxRow(nxf), nxf |-> nxf]

(***************************************************************************)
(* GetMetaValues.  An entry of res.Metas is [type, Label, Resource]: type  *)
(* is "*Meta" or that of another implementation; Resource is [kind, Metas] *)
(* with kind "nil", "*Resource" (Metas are the nested resource's entries)  *)
(* or that of another implementation.  vmap is a function from the keys it *)
(* holds to their values.                                                  *)
(***************************************************************************)
MetaLabels == {"Name", "Address", "City"}

MetaCells == {"Ann", "Oslo"}

NoResource == [kind |-> "nil", Metas |-> <<>>]

\* the entries that are not a *Meta with a nested *Resource
LeafMetas ==
  {[type |-> t, Label |-> l, Resource |-> r] :
     t \in {"*Meta", "other"}, l \in MetaLabels, r \in {NoResource}}
  \cup {[type |-> "*Meta", Label |-> l, Resource |-> [kind |-> "other", Metas |-> <<>>]] :
          l \in MetaLabels}

\* the lists of entries that have n entries in all, nested ones included
RECURSIVE Schemas(_)
Schemas(n) ==
  IF n = 0 THEN {<<>>}
  ELSE UNION {{<<m>> \o rest :
                 m \in (IF k = 1 THEN LeafMetas ELSE {})
                       \cup {[type |-> "*Meta", Label |-> l,
                              Resource |-> [kind |-> "*Resource", Metas |-> ms]] :
                               l \in MetaLabels, ms \in Schemas(k - 1)},
                 rest \in Schemas(n - k)} :
              k \in 1..n}

\* vmap[key] of a Go map: the zero value "" for a key it does not hold
MapGet(vmap, key) == IF key \in DOMAIN vmap THEN vmap[key] ELSE ""

\* delete(vmap, key)
MapDelete(vmap, key) == [k \in DOMAIN vmap \ {key} |-> vmap[k]]

\* GetMetaValues that reads vmap[m.Label] and leaves the entry in the map
RECURSIVE GetMetaValuesNoDelete(_, _)
GetMetaValuesNoDelete(Metas, vmap) ==
  IF Metas = <<>> THEN [Values |-> <<>>, vmap |-> vmap]
  ELSE LET m == Head(Metas)
       IN  IF m.type # "*Meta" THEN GetMetaValuesNoDelete(Tail(Metas), vmap)
           ELSE IF m.Resource.kind = "nil"
           THEN LET rest == GetMetaValuesNoDelete(Tail(Metas), vmap)
                IN  [Values |-> <<[Name |-> m.Label, Meta |-> m,
                                   Value |-> MapGet(vmap, m.Label),
                                   MetaValues |-> <<>>]>> \o rest.Values,
                     vmap |-> rest.vmap]
           ELSE IF m.Resource.kind # "*Resource"
           THEN GetMetaValuesNoDelete(Tail(Metas), vmap)
           ELSE LET nested == GetMetaValuesNoDelete(m.Resource.Metas, vmap)
                    rest == GetMetaValuesNoDelete(Tail(Metas), nested.vmap)
                IN  [Values |-> <<[Name |-> m.Label, Meta |-> m, Value |-> "nil",
                                   MetaValues |-> nested.Values]>> \o rest.Values,
                     vmap |-> rest.vmap]

\* GetMetaValues that appends the values of a nested resource to the list of
\* the enclosing one
RECURSIVE GetMetaValuesFlat(_, _)
GetMetaValuesFlat(Metas, vmap) ==
  IF Metas = <<>> THEN [Values |-> <<>>, vmap |-> vmap]
  ELSE LET m == Head(Metas)
       IN  IF m.type # "*Meta" THEN GetMetaValuesFlat(Tail(Metas), vmap)
           ELSE IF m.Resource.kind = "nil"
           THEN LET rest == GetMetaValuesFlat(Tail(Metas), MapDelete(vmap, m.Label))
                IN  [Values |-> <<[Name |-> m.Label, Meta |-> m,
                                   Value |-> MapGet(vmap, m.Label),
                                   MetaValues |-> <<>>]>> \o rest.Values,
                     vmap |-> rest.vmap]
           ELSE IF m.Resource.kind # "*Resource"
           THEN GetMetaValuesFlat(Tail(Metas), vmap)
           ELSE LET nested == GetMetaValuesFlat(m.Resource.Metas, vmap)
                    rest == GetMetaValuesFlat(Tail(Metas), nested.vmap)
                IN  [Values |-> nested.Values \o rest.Values, vmap |-> rest.vmap]

\* the loop over res.Metas, with the map as it is handed from entry to entry
\* (a Go map is shared by reference: the deletes of a nested call are seen by
\* the entries after it).  Values is mvs.Values, vmap the map at return.  An
\* entry that is not a *Meta, or whose Resource is not a *Resource, is passed
\* over; mv.Value of an entry with a resource stays the nil interface, "nil".
RECURSIVE GetMetaValues(_, _)
GetMetaValues(Metas, vmap) ==
  IF Metas = <<>> THEN [Values |-> <<>>, vmap |-> vmap]
  ELSE LET m == Head(Metas)
       IN  IF m.type # "*Meta" THEN GetMetaValues(Tail(Metas), vmap)
           ELSE IF m.Resource.kind = "nil"
           THEN LET rest == GetMetaValues(Tail(Metas), MapDelete(vmap, m.Label))
                IN  [Values |-> <<[Name |-> m.Label, Meta |-> m,
                                   Value |-> MapGet(vmap, m.Label),
                                   MetaValues |-> <<>>]>> \o rest.Values,
                     vmap |-> rest.vmap]
           ELSE IF m.Resource.kind # "*Resource"
           THEN GetMetaValues(Tail(Metas), vmap)
           ELSE LET nested == GetMetaValues(m.Resource.Metas, vmap)
                    rest == GetMetaValues(Tail(Metas), nested.vmap)
                IN  [Values |-> <<[Name |-> m.Label, Meta |-> m, Value |-> "nil",
                                   MetaValues |-> nested.Values]>> \o rest.Values,
                     vmap |-> rest.vmap]

(***************************************************************************)
(* State.                                                                  *)
(***************************************************************************)
VARIABLES
  xf,        \* the file: the decoded upload, then (after Import) the preprocessed one
  fi,        \* FileInfo: [TotalLines]; its channels are doneRecv and errRecv
  pp,        \* the successive results of preprocessXLSXFile (SpecPre only)
  mainpc,    \* where Import / process stands
  sheet,     \* process: the loop variable sheet, as an index into xf
  rowi,      \* process: the loop variable i of the inner loop
  wait,      \* the counter of the sync.WaitGroup
  throttle,  \* number of values buffered in the throttle channel
  hasError,  \* the shared flag
  workers,   \* the row goroutines: row id -> [pc, ii, panicking]
  iic,       \* the ImportStatus values buffered in the status channel
  received,  \* the bag of ImportStatus values the caller has received from iic
  db,        \* the transaction: [saved, commits, rollbacks]
  doneRecv,  \* number of values the caller has received from fi.Done
  errRecv,   \* the values the caller has received from fi.Error, in order
  crashed,   \* an unrecovered panic has ended the program
  throttleCap, \* cap(throttle)
  iicCap,    \* cap(iic)
  gm,        \* GetMetaValues on its own: [Metas, row, vmap, mvs, called] (SpecMeta only)
  tmpFile,   \* the temporary file of Import: "none" (not created), "present" or "removed"
  err,       \* the error Import has returned, "nil" for none
  stages,        \* the stages of one row on their own: [init, val, com, sav, out, called] (SpecStages only)
  caller         \* the caller of Import: "drains" iic at any time, or "awaits" Done/Error first

vars == <<xf, fi, pp, mainpc, sheet, rowi, wait, throttle, hasError, workers,
          iic, received, db, doneRecv, errRecv, crashed, throttleCap, iicCap, gm, tmpFile, err, stages, caller>>

(***************************************************************************)
(* The uploads given to Import: rows with one or two cells and rows whose  *)
(* only cell is empty.                                                     *)
(***************************************************************************)
ImportRows == {<<"">>, <<"a">>, <<"a", "a">>}

RECURSIVE LongRows(_)
LongRows(rs) ==
  IF rs = <<>> THEN 0
  ELSE Cardinality({k \in 1..Len(Head(rs)) : Len(Head(rs)[k]) > 1}) + LongRows(Tail(rs))

Uploads == {MkFile(rs) : rs \in {x \in SheetRows(ImportRows, MaxSheets, MaxUploadRows) :
                                   LongRows(x) <= MaxLongRows}}

\* a data row is <<s, r>>: row r of sheet.Rows[1:] (r = i + 1) of sheet s of xf
RowIds == UNION {{<<s, r>> : r \in 1..(Len(xf[s].Rows) - 1)} : s \in 1..Len(xf)}

Launched == DOMAIN workers

\* the first sheet from s on that the outer loop does not skip
\* (len(sheet.Rows) <= 1 -> continue), or 0 when the loop runs out
RECURSIVE NextSheet(_)
NextSheet(s) ==
  IF s > Len(xf) THEN 0
  ELSE IF Len(xf[s].Rows) <= 1 THEN NextSheet(s + 1)
  ELSE s

InitProc ==
  /\ fi = [TotalLines |-> 0]
  /\ mainpc = "import"
  /\ sheet = 0
  /\ rowi = 0
  /\ wait = 0
  /\ throttle = 0
  /\ hasError = FALSE
  /\ workers = <<>>
  /\ iic = <<>>
  /\ received = EmptyBag
  /\ db = [saved |-> {}, commits |-> 0, rollbacks |-> 0]
  /\ doneRecv = 0
  /\ errRecv = <<>>
  /\ crashed = FALSE
  /\ tmpFile = "none"
  /\ err = "nil"

\* GetMetaValues has not been given a schema and a row
NoMapping == [Metas |-> <<>>, row |-> <<>>, vmap |-> <<>>, mvs |-> <<>>, called |-> FALSE]

\* no row is run on its own
NoStages == [init |-> "nil", val |-> <<>>, com |-> <<>>, sav |-> "nil",
             out |-> [Errors |-> <<>>, saved |-> FALSE, ran |-> <<>>], called |-> FALSE]

\* the channels as Import and process make them
Init ==
  /\ xf \in Uploads
  /\ pp = <<>>
  /\ throttleCap = ThrottleCap
  /\ iicCap = IicCap
  /\ gm = NoMapping
  /\ stages = NoStages
  /\ caller = "drains"
  /\ InitProc

\* the same program with the two channels made with the scaled capacities
InitScaled ==
  /\ xf \in Uploads
  /\ pp = <<>>
  /\ throttleCap = ScaledThrottle
  /\ iicCap = ScaledIic
  /\ gm = NoMapping
  /\ stages = NoStages
  /\ caller = "drains"
  /\ InitProc

\* the program with the status channel made with the scaled capacity, and a
\* caller that receives from iic only once it has received from fi.Done or
\* fi.Error
InitAwait ==
  /\ xf \in Uploads
  /\ pp = <<>>
  /\ throttleCap = ThrottleCap
  /\ iicCap = ScaledIic
  /\ gm = NoMapping
  /\ stages = NoStages
  /\ caller = "awaits"
  /\ InitProc

\* the sum of the first j entries of lens
RECURSIVE SumTo(_, _)
SumTo(lens, j) == IF j = 0 THEN 0 ELSE lens[j] + SumTo(lens, j - 1)

\* the rows flat cut into sheets of lens[1], lens[2], ... rows
Split(flat, lens) ==
  [j \in 1..Len(lens) |-> SubSeq(flat, SumTo(lens, j - 1) + 1, SumTo(lens, j))]

\* the inputs of preprocessXLSXFile alone: every file of at most MaxSheets
\* sheets of at most MaxRows rows each and MaxPreRows rows in all
InitPre ==
  /\ \E k \in 0..MaxSheets : \E lens \in [1..k -> 0..MaxRows] :
       /\ SumTo(lens, k) <= MaxPreRows
       /\ \E flat \in [1..SumTo(lens, k) -> AllRows] : xf = MkFile(Split(flat, lens))
  /\ pp = <<>>
  /\ throttleCap = ThrottleCap
  /\ iicCap = IicCap
  /\ gm = NoMapping
  /\ stages = NoStages
  /\ caller = "drains"
  /\ InitProc

(***************************************************************************)
(* Import: buffer the upload in a temporary file, decode it, preprocess    *)
(* it, make the channels, start process.                                   *)
(***************************************************************************)
\* the errors of ioutil.TempFile, io.Copy, zip.OpenReader and xlsx.ReadZip
ImportErrors == {"TempFile failed", "Copy failed", "OpenReader failed", "ReadZip failed"}

\* the temporary file when Import returns with e: it does not exist when
\* TempFile failed; defer os.Remove(f.Name()) is registered after the return
\* on the error of io.Copy, so the file stays when Copy failed and is removed
\* on every later return
TmpFileAtReturn(e) ==
  IF e = "TempFile failed" THEN "none"
  ELSE IF e = "Copy failed" THEN "present"
  ELSE "removed"

\* Import up to its return; xf is what xlsx.ReadZip decodes when nothing fails
Import ==
  /\ ~crashed
  /\ mainpc = "import"
  /\ \E e \in ImportErrors \cup {"nil"} :
       /\ err' = e
       /\ tmpFile' = TmpFileAtReturn(e)
       /\ IF e # "nil"
          THEN /\ mainpc' = "returned"
               /\ UNCHANGED <<xf, fi>>
          ELSE LET r == preprocessXLSXFile(xf)
               IN  /\ fi' = [fi EXCEPT !.TotalLines = r.totalLines]
                   /\ xf' = r.nxf
                   /\ mainpc' = "start"
  /\ UNCHANGED <<pp, sheet, rowi, wait, throttle, hasError, workers, iic,
                 received, db, doneRecv, errRecv, crashed,
                 throttleCap, iicCap, gm, stages, caller>>

(***************************************************************************)
(* process: the submitting goroutine.                                      *)
(***************************************************************************)
\* wait.Add(fi.TotalLines - 1), which panics on a negative counter; then
\* ctx.DB.Begin() and the loops up to the first throttle <- true
ProcessStart ==
  /\ ~crashed
  /\ mainpc = "start"
  /\ IF fi.TotalLines - 1 < 0
     THEN /\ crashed' = TRUE
          /\ mainpc' = "panic"
          /\ UNCHANGED <<wait, sheet, rowi>>
     ELSE /\ wait' = fi.TotalLines - 1
          /\ sheet' = IF NextSheet(1) = 0 THEN Len(xf) ELSE NextSheet(1)
          /\ rowi' = 0
          /\ mainpc' = IF NextSheet(1) = 0 THEN "wait" ELSE "acquire"
          /\ UNCHANGED crashed
  /\ UNCHANGED <<xf, fi, pp, throttle, hasError, workers, iic, received, db,
                 doneRecv, errRecv,
                 throttleCap, iicCap, gm, tmpFile, err, stages, caller>>

\* ThrottleSend without the blocking of a full channel
ThrottleSendNoBlock ==
  /\ ~crashed
  /\ mainpc = "acquire"
  /\ throttle' = throttle + 1
  /\ mainpc' = "check"
  /\ UNCHANGED <<xf, fi, pp, sheet, rowi, wait, hasError, workers, iic,
                 received, db, doneRecv, errRecv, crashed,
                 throttleCap, iicCap, gm, tmpFile, err, stages, caller>>

\* throttle <- true: blocks while the channel holds cap(throttle) values
ThrottleSend ==
  /\ ~crashed
  /\ mainpc = "acquire"
  /\ throttle < throttleCap
  /\ throttle' = throttle + 1
  /\ mainpc' = "check"
  /\ UNCHANGED <<xf, fi, pp, sheet, rowi, wait, hasError, workers, iic,
                 received, db, doneRecv, errRecv, crashed,
                 throttleCap, iicCap, gm, tmpFile, err, stages, caller>>

\* ii := ImportStatus{...} is built by the goroutine; the go statement only
\* creates it
NewWorker == [pc |-> "run", ii |-> [LineNum |-> 0, Sheet |-> 0, Errors |-> <<>>],
              panicking |-> FALSE]

\* if hasError { goto rollback }; otherwise go func(i, row, iic) and on to the
\* next row, the next sheet with data rows, or wait.Wait()
Submit ==
  /\ ~crashed
  /\ mainpc = "check"
  /\ IF hasError
     THEN /\ mainpc' = "rollback"
          /\ UNCHANGED <<sheet, rowi, workers>>
     ELSE /\ workers' = [id \in Launched \cup {<<sheet, rowi + 1>>} |->
                           IF id \in Launched THEN workers[id] ELSE NewWorker]
          /\ IF rowi + 1 < Len(xf[sheet].Rows) - 1
             THEN /\ rowi' = rowi + 1
                  /\ mainpc' = "acquire"
                  /\ UNCHANGED sheet
             ELSE IF NextSheet(sheet + 1) # 0
             THEN /\ sheet' = NextSheet(sheet + 1)
                  /\ rowi' = 0
                  /\ mainpc' = "acquire"
             ELSE /\ sheet' = Len(xf)
                  /\ mainpc' = "wait"
                  /\ UNCHANGED rowi
  /\ UNCHANGED <<xf, fi, pp, wait, throttle, hasError, iic, received, db,
                 doneRecv, errRecv, crashed,
                 throttleCap, iicCap, gm, tmpFile, err, stages, caller>>

\* wait.Wait(): returns when the counter is zero; falls into the rollback label
WaitWait ==
  /\ ~crashed
  /\ mainpc = "wait"
  /\ wait = 0
  /\ mainpc' = "rollback"
  /\ UNCHANGED <<xf, fi, pp, sheet, rowi, wait, throttle, hasError, workers,
                 iic, received, db, doneRecv, errRecv, crashed,
                 throttleCap, iicCap, gm, tmpFile, err, stages, caller>>

\* rollback: if hasError { db.Rollback() ... }, whose error is the storage's
Rollback ==
  /\ ~crashed
  /\ mainpc = "rollback"
  /\ hasError
  /\ db' = [db EXCEPT !.rollbacks = @ + 1]
  /\ \E failed \in BOOLEAN :
       mainpc' = IF failed THEN "sendRollbackErr" ELSE "sendJobErr"
  /\ UNCHANGED <<xf, fi, pp, sheet, rowi, wait, throttle, hasError, workers,
                 iic, received, doneRecv, errRecv, crashed,
                 throttleCap, iicCap, gm, tmpFile, err, stages, caller>>

\* fi.Error <- err (the rollback's error): the caller receives it
SendRollbackErr ==
  /\ ~crashed
  /\ mainpc = "sendRollbackErr"
  /\ errRecv' = Append(errRecv, "rollback")
  /\ mainpc' = "sendJobErr"
  /\ UNCHANGED <<xf, fi, pp, sheet, rowi, wait, throttle, hasError, workers,
                 iic, received, db, doneRecv, crashed,
                 throttleCap, iicCap, gm, tmpFile, err, stages, caller>>

\* fi.Error <- errors.New("meet error in job processing"); return, and the
\* deferred close(throttle)
SendJobErr ==
  /\ ~crashed
  /\ mainpc = "sendJobErr"
  /\ errRecv' = Append(errRecv, "job")
  /\ mainpc' = "done"
  /\ UNCHANGED <<xf, fi, pp, sheet, rowi, wait, throttle, hasError, workers,
                 iic, received, db, doneRecv, crashed,
                 throttleCap, iicCap, gm, tmpFile, err, stages, caller>>

\* no error seen: db.Commit(), whose error is the storage's
Commit ==
  /\ ~crashed
  /\ mainpc = "rollback"
  /\ ~hasError
  /\ db' = [db EXCEPT !.commits = @ + 1]
  /\ \E failed \in BOOLEAN :
       mainpc' = IF failed THEN "sendCommitErr" ELSE "sendDone"
  /\ UNCHANGED <<xf, fi, pp, sheet, rowi, wait, throttle, hasError, workers,
                 iic, received, doneRecv, errRecv, crashed,
                 throttleCap, iicCap, gm, tmpFile, err, stages, caller>>

\* fi.Error <- err (the commit's error); return
SendCommitErr ==
  /\ ~crashed
  /\ mainpc = "sendCommitErr"
  /\ errRecv' = Append(errRecv, "commit")
  /\ mainpc' = "done"
  /\ UNCHANGED <<xf, fi, pp, sheet, rowi, wait, throttle, hasError, workers,
                 iic, received, db, doneRecv, crashed,
                 throttleCap, iicCap, gm, tmpFile, err, stages, caller>>

\* fi.Done <- true; return
SendDone ==
  /\ ~crashed
  /\ mainpc = "sendDone"
  /\ doneRecv' = doneRecv + 1
  /\ mainpc' = "done"
  /\ UNCHANGED <<xf, fi, pp, sheet, rowi, wait, throttle, hasError, workers,
                 iic, received, db, errRecv, crashed,
                 throttleCap, iicCap, gm, tmpFile, err, stages, caller>>

(***************************************************************************)
(* The row goroutine.                                                      *)
(***************************************************************************)
\* what the collaborators can return: p.Initialize(), p.Validate(),
\* p.Commit() and db.Save(p.Result).Error
InitResults == {"nil", "ErrProcessorRecordNotFound", "initialize failed"}
ValidateResults == {<<>>, <<"invalid 1", "invalid 2">>}
CommitResults == {<<>>, <<"commit failed">>}
SaveResults == {"nil", "save failed"}

\* RowStages that validates before it initializes and saves a record whose
\* validation failed
RowStagesSaveInvalid(init, val, com, sav) ==
  IF Len(val) > 0
  THEN [Errors |-> val, saved |-> TRUE, ran |-> <<"Validate", "Save">>]
  ELSE IF init # "nil" /\ init # "ErrProcessorRecordNotFound"
  THEN [Errors |-> <<init>>, saved |-> FALSE, ran |-> <<"Validate", "Initialize">>]
  ELSE IF Len(com) > 0
  THEN [Errors |-> com, saved |-> FALSE, ran |-> <<"Validate", "Initialize", "Commit">>]
  ELSE IF sav # "nil"
  THEN [Errors |-> <<sav>>, saved |-> TRUE,
        ran |-> <<"Validate", "Initialize", "Commit", "Save">>]
  ELSE [Errors |-> <<>>, saved |-> TRUE,
        ran |-> <<"Validate", "Initialize", "Commit", "Save">>]

\* the body of the goroutine after DecodeToResource, given what p.Initialize,
\* p.Validate, p.Commit and db.Save return when they are called: the first
\* stage that fails sets ii.Errors and returns; db.Save is reached only past
\* the others.  ran lists the calls made, in order; saved says db.Save was
\* called.
RowStages(init, val, com, sav) ==
  IF init # "nil" /\ init # "ErrProcessorRecordNotFound"
  THEN [Errors |-> <<init>>, saved |-> FALSE, ran |-> <<"Initialize">>]
  ELSE IF Len(val) > 0
  THEN [Errors |-> val, saved |-> FALSE, ran |-> <<"Initialize", "Validate">>]
  ELSE IF Len(com) > 0
  THEN [Errors |-> com, saved |-> FALSE, ran |-> <<"Initialize", "Validate", "Commit">>]
  ELSE IF sav # "nil"
  THEN [Errors |-> <<sav>>, saved |-> TRUE,
        ran |-> <<"Initialize", "Validate", "Commit", "Save">>]
  ELSE [Errors |-> <<>>, saved |-> TRUE,
        ran |-> <<"Initialize", "Validate", "Commit", "Save">>]

\* the loop variable sheet is shared by the closures of one process call when
\* the build gives a for loop one variable, and is the goroutine's own sheet
\* when the build gives each iteration its own
SheetSeen(id) == {xf[id[1]].Name, xf[sheet].Name}

\* ii := ImportStatus{Sheet: sheet.Name}; the vmap loop, which indexes headers
\* by the row's cell index and panics when the row has more cells than the
\* header row; then the stages.  A panic runs the deferred function too.
\* ii.MetaValues is a function of the row and the schema alone and is not
\* carried in the state.
WorkerRun(id) ==
  /\ ~crashed
  /\ id \in Launched
  /\ workers[id].pc = "run"
  /\ LET headers == xf[id[1]].Rows[1]
         row == xf[id[1]].Rows[id[2] + 1]
     IN  \E name \in SheetSeen(id) :
           IF Len(row) > Len(headers)
           THEN /\ workers' = [workers EXCEPT ![id].pc = "flag",
                                              ![id].ii.Sheet = name,
                                              ![id].panicking = TRUE]
                /\ UNCHANGED db
           ELSE \E init \in InitResults, val \in ValidateResults,
                   com \in CommitResults, sav \in SaveResults :
                  LET res == RowStages(init, val, com, sav)
                  IN  /\ workers' = [workers EXCEPT ![id].pc = "flag",
                                                    ![id].ii.Sheet = name,
                                                    ![id].ii.Errors = res.Errors]
                      /\ db' = IF res.saved
                               THEN [db EXCEPT !.saved = @ \cup {id}]
                               ELSE db
  /\ UNCHANGED <<xf, fi, pp, mainpc, sheet, rowi, wait, throttle, hasError,
                 iic, received, doneRecv, errRecv, crashed,
                 throttleCap, iicCap, gm, tmpFile, err, stages, caller>>

\* deferred: hasError = len(ii.Errors) > 0
SetHasError(id) ==
  /\ ~crashed
  /\ id \in Launched
  /\ workers[id].pc = "flag"
  /\ hasError' = (Len(workers[id].ii.Errors) > 0)
  /\ workers' = [workers EXCEPT ![id].pc = "send"]
  /\ UNCHANGED <<xf, fi, pp, mainpc, sheet, rowi, wait, throttle, iic,
                 received, db, doneRecv, errRecv, crashed,
                 throttleCap, iicCap, gm, tmpFile, err, stages, caller>>

\* the value sent on iic, with the row it reports (Row is not a field of
\* ImportStatus: it names the sender)
StatusOf(id) == [Row |-> id, LineNum |-> workers[id].ii.LineNum,
                 Sheet |-> workers[id].ii.Sheet, Errors |-> workers[id].ii.Errors]

\* SendStatus that reports a row only when it has no errors
SendStatusOnlyOk(id) ==
  /\ ~crashed
  /\ id \in Launched
  /\ workers[id].pc = "send"
  /\ Len(iic) < iicCap
  /\ iic' = IF Len(workers[id].ii.Errors) > 0 THEN iic ELSE Append(iic, StatusOf(id))
  /\ workers' = [workers EXCEPT ![id].pc = "release"]
  /\ UNCHANGED <<xf, fi, pp, mainpc, sheet, rowi, wait, throttle, hasError,
                 received, db, doneRecv, errRecv, crashed,
                 throttleCap, iicCap, gm, tmpFile, err, stages, caller>>

\* deferred: iic <- ii, which blocks while the channel holds cap(iic) values
SendStatus(id) ==
  /\ ~crashed
  /\ id \in Launched
  /\ workers[id].pc = "send"
  /\ Len(iic) < iicCap
  /\ iic' = Append(iic, StatusOf(id))
  /\ workers' = [workers EXCEPT ![id].pc = "release"]
  /\ UNCHANGED <<xf, fi, pp, mainpc, sheet, rowi, wait, throttle, hasError,
                 received, db, doneRecv, errRecv, crashed,
                 throttleCap, iicCap, gm, tmpFile, err, stages, caller>>

\* process has returned and its deferred close(throttle) has run
ThrottleClosed == mainpc = "done"

\* deferred: <-throttle, which takes a buffered value, or returns at once on
\* the closed and drained channel
ThrottleRecv(id) ==
  /\ ~crashed
  /\ id \in Launched
  /\ workers[id].pc = "release"
  /\ throttle > 0 \/ ThrottleClosed
  /\ throttle' = IF throttle > 0 THEN throttle - 1 ELSE 0
  /\ workers' = [workers EXCEPT ![id].pc = "done"]
  /\ UNCHANGED <<xf, fi, pp, mainpc, sheet, rowi, wait, hasError, iic,
                 received, db, doneRecv, errRecv, crashed,
                 throttleCap, iicCap, gm, tmpFile, err, stages, caller>>

\* deferred: wait.Done(), which panics on a negative counter; a goroutine that
\* was panicking ends the program once its deferred function has returned
WaitDone(id) ==
  /\ ~crashed
  /\ id \in Launched
  /\ workers[id].pc = "done"
  /\ wait' = wait - 1
  /\ crashed' = (wait - 1 < 0 \/ workers[id].panicking)
  /\ workers' = [workers EXCEPT ![id].pc = "exit"]
  /\ UNCHANGED <<xf, fi, pp, mainpc, sheet, rowi, throttle, hasError, iic,
                 received, db, doneRecv, errRecv,
                 throttleCap, iicCap, gm, tmpFile, err, stages, caller>>

(***************************************************************************)
(* The caller of Import.                                                   *)
(***************************************************************************)
\* <-iic; a caller that awaits the signal of the job first receives from iic
\* only after it
RecvStatus ==
  /\ ~crashed
  /\ caller = "drains" \/ doneRecv + Len(errRecv) > 0
  /\ Len(iic) > 0
  /\ received' = received (+) SetToBag({Head(iic)})
  /\ iic' = Tail(iic)
  /\ UNCHANGED <<xf, fi, pp, mainpc, sheet, rowi, wait, throttle, hasError,
                 workers, db, doneRecv, errRecv, crashed,
                 throttleCap, iicCap, gm, tmpFile, err, stages, caller>>

\* the steps of the row goroutines, for any row
RowRun == \E id \in RowIds : WorkerRun(id)
RowSetHasError == \E id \in RowIds : SetHasError(id)
RowSendStatus == \E id \in RowIds : SendStatus(id)
RowThrottleRecv == \E id \in RowIds : ThrottleRecv(id)
RowWaitDone == \E id \in RowIds : WaitDone(id)

Next ==
  \/ Import
  \/ ProcessStart
  \/ ThrottleSend
  \/ Submit
  \/ WaitWait
  \/ Rollback
  \/ SendRollbackErr
  \/ SendJobErr
  \/ Commit
  \/ SendCommitErr
  \/ SendDone
  \/ RowRun
  \/ RowSetHasError
  \/ RowSendStatus
  \/ RowThrottleRecv
  \/ RowWaitDone
  \/ RecvStatus

Spec == Init /\ [][Next]_vars

SpecScaled == InitScaled /\ [][Next]_vars

SpecAwait == InitAwait /\ [][Next]_vars

(***************************************************************************)
(* preprocessXLSXFile on its own: applied to the upload, then to its own   *)
(* output.                                                                 *)
(***************************************************************************)
Preprocess ==
  /\ Len(pp) < MaxApply
  /\ pp' = Append(pp, preprocessXLSXFile(IF pp = <<>> THEN xf ELSE pp[Len(pp)].nxf))
  /\ UNCHANGED <<xf, fi, mainpc, sheet, rowi, wait, throttle, hasError, workers,
                 iic, received, db, doneRecv, errRecv, crashed, throttleCap, iicCap, gm, tmpFile, err, stages, caller>>

NextPre == Preprocess

SpecPre == InitPre /\ [][NextPre]_vars

(***************************************************************************)
(* GetMetaValues on its own: applied to a schema of at most MaxMetas       *)
(* entries and the map of a row.                                           *)
(***************************************************************************)
\* the maps the goroutine builds from headers and row.Cells
RowMaps == UNION {[keys -> MetaCells] : keys \in SUBSET MetaLabels}

InitMeta ==
  /\ \E n \in 0..MaxMetas : \E ms \in Schemas(n) : \E m \in RowMaps :
       gm = [Metas |-> ms, row |-> m, vmap |-> m, mvs |-> <<>>, called |-> FALSE]
  /\ stages = NoStages
  /\ caller = "drains"
  /\ xf = <<>>
  /\ pp = <<>>
  /\ throttleCap = ThrottleCap
  /\ iicCap = IicCap
  /\ InitProc

\* ii.MetaValues = res.GetMetaValues(vmap)
MapRow ==
  /\ ~gm.called
  /\ LET r == GetMetaValues(gm.Metas, gm.vmap)
     IN  gm' = [gm EXCEPT !.mvs = r.Values, !.vmap = r.vmap, !.called = TRUE]
  /\ UNCHANGED <<xf, fi, pp, mainpc, sheet, rowi, wait, throttle, hasError, workers,
                 iic, received, db, doneRecv, errRecv, crashed, throttleCap, iicCap,
                 tmpFile, err, stages, caller>>

NextMeta == MapRow

SpecMeta == InitMeta /\ [][NextMeta]_vars

(***************************************************************************)
(* The stages of one row on their own: applied to what the collaborators   *)
(* return.                                                                 *)
(***************************************************************************)
\* the error lists p.Validate() and p.Commit() can return
StageValidateResults == SeqsUpTo({"invalid 1", "invalid 2"}, MaxErrors)
StageCommitResults == SeqsUpTo({"commit failed"}, MaxErrors)

InitStages ==
  /\ \E init \in InitResults, val \in StageValidateResults,
        com \in StageCommitResults, sav \in SaveResults :
       stages = [NoStages EXCEPT !.init = init, !.val = val, !.com = com, !.sav = sav]
  /\ gm = NoMapping
  /\ caller = "drains"
  /\ xf = <<>>
  /\ pp = <<>>
  /\ throttleCap = ThrottleCap
  /\ iicCap = IicCap
  /\ InitProc

\* the stages of the goroutine, from p.Initialize() to db.Save
RunStages ==
  /\ ~stages.called
  /\ stages' = [stages EXCEPT !.out = RowStages(stages.init, stages.val, stages.com, stages.sav),
                      !.called = TRUE]
  /\ UNCHANGED <<xf, fi, pp, mainpc, sheet, rowi, wait, throttle, hasError, workers,
                 iic, received, db, doneRecv, errRecv, crashed, throttleCap, iicCap,
                 gm, tmpFile, err, caller>>

NextStages == RunStages

SpecStages == InitStages /\ [][NextStages]_vars

(***************************************************************************)
(* Observations used by the properties.                                    *)
(***************************************************************************)
\* the goroutine of row id has returned (its deferred function included)
Finished(id) == id \in Launched /\ workers[id].pc = "exit"

\* row id has ended its stages with a non-empty ii.Errors
Failed(id) == id \in Launched /\ workers[id].pc # "run" /\ Len(workers[id].ii.Errors) > 0

\* row id has run iic <- ii
HasSent(id) == id \in Launched /\ workers[id].pc \in {"release", "done", "exit"}

\* goroutines that hold a slot: started and not yet past <-throttle
InFlight == {id \in Launched : workers[id].pc \in {"run", "flag", "send", "release"}}

\* number of ImportStatus values sent on iic for row id, buffered or received
Emitted(id) ==
  Cardinality({k \in 1..Len(iic) : iic[k].Row = id})
  + BagCardinality([st \in {x \in BagToSet(received) : x.Row = id} |-> received[st]])

TotalEmitted == Len(iic) + BagCardinality(received)

\* db.Commit() returned an error
CommitFailed == mainpc = "sendCommitErr" \/ \E k \in 1..Len(errRecv) : errRecv[k] = "commit"

\* every data row of the file was submitted and returned without an error
AllRowsSucceeded ==
  \A id \in RowIds : Finished(id) /\ ~Failed(id) /\ ~workers[id].panicking

(***************************************************************************)
(* C1.  If any row fails, the transaction is rolled back exactly once and  *)
(* is never committed: no commit is issued once a row has failed, and a    *)
(* job that has returned after a row failed has issued one rollback.       *)
(***************************************************************************)
C1_RollbackOnFailure ==
  (\E id \in Launched : Failed(id)) =>
     /\ db.commits = 0
     /\ mainpc = "done" => db.rollbacks = 1

(***************************************************************************)
(* C2.  If every row succeeds (there is a row, and the commit does not     *)
(* fail), the job ends with one commit, no rollback and one value on Done: *)
(* it never comes to rest otherwise, and never issues a rollback or a      *)
(* second commit or Done.                                                  *)
(***************************************************************************)
C2_CommitOnSuccess ==
  (mainpc \notin {"import", "start"} /\ RowIds # {} /\ AllRowsSucceeded /\ ~CommitFailed) =>
     /\ db.rollbacks = 0 /\ db.commits <= 1 /\ doneRecv <= 1
     /\ ~(ENABLED Next) => (db.commits = 1 /\ doneRecv = 1)

(***************************************************************************)
(* C3.  At most one batch-level signal is delivered per job: the values    *)
(* received on Done and on Error number at most one in all.                *)
(***************************************************************************)
C3_OneSignal == doneRecv + Len(errRecv) <= 1

(***************************************************************************)
(* C4.  Commit or Rollback is issued only when every launched row          *)
(* goroutine has returned.                                                 *)
(***************************************************************************)
C4_DecisionAfterBarrier ==
  (db.commits + db.rollbacks > 0) => \A id \in Launched : Finished(id)

(***************************************************************************)
(* C5.  The goroutines that hold a pool slot never outnumber the capacity  *)
(* of the throttle channel.                                                *)
(***************************************************************************)
C5_ThrottleBound == Cardinality(InFlight) <= throttleCap

\* the pool is full, a further row waits at throttle <- true
C5_Witness ==
  /\ Cardinality(InFlight) = throttleCap
  /\ mainpc = "acquire"
  /\ Cardinality(RowIds) > throttleCap

(***************************************************************************)
(* C6.  Once a row goroutine has returned with errors, no further row is   *)
(* submitted.                                                              *)
(***************************************************************************)
C6_EarlyAbort ==
  [][(\E id \in Launched : Finished(id) /\ Failed(id)) => (DOMAIN workers' = DOMAIN workers)]_vars

(***************************************************************************)
(* C7.  Every submitted row has exactly one ImportStatus on the status     *)
(* stream from its deferred send on, none before, never two; a row that    *)
(* was not submitted has none.                                             *)
(***************************************************************************)
C7_OneOutcomePerRow ==
  \A id \in RowIds : Emitted(id) = IF HasSent(id) THEN 1 ELSE 0

\* the job aborted after a failure, left a row unsubmitted, and a row that was
\* in flight at the abort has since delivered its outcome
C7_Witness ==
  /\ mainpc = "done"
  /\ Len(errRecv) > 0
  /\ \E id \in RowIds : id \notin Launched
  /\ \E id \in Launched : Failed(id)
  /\ \E id \in Launched : ~Failed(id) /\ Finished(id)
  /\ \A id \in Launched : Finished(id)
  /\ iic = <<>>
  /\ BagCardinality(received) = Cardinality(Launched)

(***************************************************************************)
(* C8.  The outcomes emitted number the rows submitted (once each has     *)
(* sent), never outnumber TotalLines, and number TotalLines when the job   *)
(* has signalled Done (no row failed).                                     *)
(***************************************************************************)
C8_OutcomesEqualTotal ==
  /\ (\A id \in Launched : HasSent(id)) => TotalEmitted = Cardinality(Launched)
  /\ TotalEmitted <= fi.TotalLines
  /\ (mainpc = "done" /\ doneRecv = 1 /\ \A id \in Launched : Finished(id))
       => TotalEmitted = fi.TotalLines

(***************************************************************************)
(* C9.  totalLines is the number of surviving data rows: the rows of the   *)
(* output with the first (header) row of every sheet left out.             *)
(***************************************************************************)
RECURSIVE DataRows(_)
DataRows(sheets) ==
  IF sheets = <<>> THEN 0
  ELSE (IF Len(Head(sheets).Rows) > 0 THEN Len(Head(sheets).Rows) - 1 ELSE 0)
       + DataRows(Tail(sheets))

C9_TotalIsDataRows ==
  \A k \in 1..Len(pp) : pp[k].totalLines = DataRows(pp[k].nxf)

(***************************************************************************)
(* C10.  preprocessXLSXFile applied to its own output returns that output: *)
(* the same sheets, rows and total.                                        *)
(***************************************************************************)
C10_Idempotent == Len(pp) >= 2 => pp[2] = pp[1]

(***************************************************************************)
(* C11.  The output of preprocessXLSXFile has no sheet with zero rows; its *)
(* sheets are the input sheets that have a row with a non-empty cell, in   *)
(* the input order, each with exactly those rows, in the input order.      *)
(***************************************************************************)
C11_CleanedCopy ==
  Len(pp) >= 1 =>
    LET out == pp[1].nxf
        NonEmptyRow(row) == \E j \in 1..Len(row) : row[j] # ""
        NonEmptySheet(s) == \E r \in 1..Len(s.Rows) : NonEmptyRow(s.Rows[r])
        kept == SelectSeq(xf, NonEmptySheet)
    IN  /\ \A k \in 1..Len(out) : Len(out[k].Rows) > 0
        /\ Len(out) = Len(kept)
        /\ \A k \in 1..Len(out) :
             /\ out[k].Name = kept[k].Name
             /\ out[k].Rows = SelectSeq(kept[k].Rows, NonEmptyRow)

(***************************************************************************)
(* C12.  The error of a failed rollback is delivered on Error as a value   *)
(* of its own, ahead of the generic batch-failure error, and a job that    *)
(* has returned after a row failed has delivered the generic error,        *)
(* whether or not the rollback succeeded.                                  *)
(***************************************************************************)
C12_FailureSurfaced ==
  /\ \A k \in 1..Len(errRecv) : errRecv[k] = "rollback" =>
       /\ k = 1
       /\ mainpc = "done" => (Len(errRecv) = 2 /\ errRecv[2] = "job")
  /\ (db.rollbacks > 0 /\ mainpc = "done") =>
       (Len(errRecv) > 0 /\ errRecv[Len(errRecv)] = "job")
  /\ (mainpc = "done" /\ \E id \in Launched : Failed(id)) =>
       \E k \in 1..Len(errRecv) : errRecv[k] = "job"

(***************************************************************************)
(* Observations of GetMetaValues.                                          *)
(***************************************************************************)
\* an entry the loop of GetMetaValues does not pass over
Participates(m) == m.type = "*Meta" /\ m.Resource.kind \in {"nil", "*Resource"}

\* the labels of the entries without a resource, in the order the loop and
\* its nested calls come to them
RECURSIVE ScalarLabels(_)
ScalarLabels(Metas) ==
  IF Metas = <<>> THEN <<>>
  ELSE LET m == Head(Metas)
       IN  (IF ~Participates(m) THEN <<>>
            ELSE IF m.Resource.kind = "nil" THEN <<m.Label>>
            ELSE ScalarLabels(m.Resource.Metas))
           \o ScalarLabels(Tail(Metas))

\* the Value fields of the MetaValues made for entries without a resource, in
\* the order of mvs.Values and of the nested MetaValues
RECURSIVE ScalarValues(_)
ScalarValues(mvs) ==
  IF mvs = <<>> THEN <<>>
  ELSE (IF Head(mvs).Meta.Resource.kind = "nil" THEN <<Head(mvs).Value>>
        ELSE ScalarValues(Head(mvs).MetaValues))
       \o ScalarValues(Tail(mvs))

\* mvs has one MetaValue per participating entry of Metas, in order and named
\* by its label: a scalar for an entry without a resource, and for an entry
\* with one the MetaValues that mirror the nested entries
RECURSIVE Mirrors(_, _)
Mirrors(Metas, mvs) ==
  LET P == SelectSeq(Metas, Participates)
  IN  /\ Len(mvs) = Len(P)
      /\ \A k \in 1..Len(P) :
           /\ mvs[k].Name = P[k].Label
           /\ IF P[k].Resource.kind = "nil"
              THEN mvs[k].Value # "nil" /\ mvs[k].MetaValues = <<>>
              ELSE mvs[k].Value = "nil" /\ Mirrors(P[k].Resource.Metas, mvs[k].MetaValues)

\* the entry for a column, and for a nested resource
Scalar(l) == [type |-> "*Meta", Label |-> l, Resource |-> NoResource]
Nested(l, ms) == [type |-> "*Meta", Label |-> l,
                  Resource |-> [kind |-> "*Resource", Metas |-> ms]]

(***************************************************************************)
(* C13.  The entries without a resource take their values from the row's   *)
(* map in the order GetMetaValues comes to them: each gets the map's entry *)
(* for its label, unless the row has none or an earlier entry (sibling or  *)
(* nested) of the same label has taken it, and then gets ""; the entries   *)
(* taken are removed from the map and no other; a row whose keys are       *)
(* exactly those labels leaves the map empty.                              *)
(***************************************************************************)
C13_Consumption ==
  gm.called =>
    LET ls == ScalarLabels(gm.Metas)
        vs == ScalarValues(gm.mvs)
        claimed == {ls[k] : k \in 1..Len(ls)}
    IN  /\ Len(vs) = Len(ls)
        /\ \A k \in 1..Len(ls) :
             vs[k] = IF ls[k] \in DOMAIN gm.row /\ ~\E j \in 1..(k - 1) : ls[j] = ls[k]
                     THEN gm.row[ls[k]]
                     ELSE ""
        /\ DOMAIN gm.vmap = DOMAIN gm.row \ claimed
        /\ \A l \in DOMAIN gm.vmap : gm.vmap[l] = gm.row[l]
        /\ DOMAIN gm.row = claimed => gm.vmap = <<>>

\* a row was mapped whose schema names one of its columns twice and names a
\* column the row does not have
C13_Witness ==
  /\ gm.called
  /\ LET ls == ScalarLabels(gm.Metas)
     IN  /\ \E k \in 1..Len(ls) : \E j \in 1..(k - 1) :
              ls[j] = ls[k] /\ ls[k] \in DOMAIN gm.row
         /\ \E k \in 1..Len(ls) : ls[k] \notin DOMAIN gm.row

(***************************************************************************)
(* C14.  The result of GetMetaValues mirrors the nesting of the schema: a  *)
(* scalar per entry without a resource, nested MetaValues per entry with   *)
(* one, filled from the same map after the entries before it have taken    *)
(* theirs.  Schema [Name, Address{City}] and row {Name: Ann, City: Oslo}   *)
(* give {Name: Ann, Address: {City: Oslo}}; schema [City, Address{City}]   *)
(* and row {City: Oslo} give {City: Oslo, Address: {City: ""}}.            *)
(***************************************************************************)
C14_NestedMirror ==
  gm.called =>
    /\ Mirrors(gm.Metas, gm.mvs)
    /\ (/\ gm.Metas = <<Scalar("Name"), Nested("Address", <<Scalar("City")>>)>>
        /\ gm.row = [l \in {"Name", "City"} |-> IF l = "Name" THEN "Ann" ELSE "Oslo"])
       => /\ gm.mvs[1].Name = "Name" /\ gm.mvs[1].Value = "Ann"
          /\ gm.mvs[2].Name = "Address" /\ Len(gm.mvs[2].MetaValues) = 1
          /\ gm.mvs[2].MetaValues[1].Name = "City"
          /\ gm.mvs[2].MetaValues[1].Value = "Oslo"
          /\ gm.vmap = <<>>
    /\ (/\ gm.Metas = <<Scalar("City"), Nested("Address", <<Scalar("City")>>)>>
        /\ gm.row = [l \in {"City"} |-> "Oslo"])
       => /\ gm.mvs[1].Value = "Oslo"
          /\ gm.mvs[2].MetaValues[1].Value = ""

\* the row {Name: Ann, City: Oslo} was mapped with schema [Name, Address{City}]
C14_Witness ==
  /\ gm.called
  /\ gm.Metas = <<Scalar("Name"), Nested("Address", <<Scalar("City")>>)>>
  /\ gm.row = [l \in {"Name", "City"} |-> IF l = "Name" THEN "Ann" ELSE "Oslo"]
  /\ Len(gm.mvs) = 2

\* the ImportStatus values sent on iic so far, buffered or received
Statuses == {iic[k] : k \in 1..Len(iic)} \cup BagToSet(received)

(***************************************************************************)
(* C15.  Every ImportStatus on the status stream carries the line of the   *)
(* row it reports: two rows of one sheet never report the same LineNum.    *)
(***************************************************************************)
C15_LineNumbers ==
  \A st1 \in Statuses, st2 \in Statuses :
    (st1.Row[1] = st2.Row[1] /\ st1.Row # st2.Row) => st1.LineNum # st2.LineNum

(***************************************************************************)
(* C16.  Import never returns with its temporary file in place: not when   *)
(* buffering fails, not when decoding fails, not when it succeeds.         *)
(***************************************************************************)
C16_TempFileRemoved == mainpc # "import" => tmpFile # "present"

(***************************************************************************)
(* C17.  The stages of a row are called in the order Initialize, Validate, *)
(* Commit, Save, and the calls stop at the first that fails (Initialize    *)
(* returning ErrProcessorRecordNotFound does not fail): ii.Errors are the  *)
(* errors of that stage, all of them, and empty when none fails; db.Save   *)
(* is called only when Initialize, Validate and Commit did not fail.       *)
(***************************************************************************)
C17_StagesFailFast ==
  stages.called =>
    LET order == <<"Initialize", "Validate", "Commit", "Save">>
        errs == <<IF stages.init \in {"nil", "ErrProcessorRecordNotFound"}
                  THEN <<>> ELSE <<stages.init>>,
                  stages.val, stages.com,
                  IF stages.sav = "nil" THEN <<>> ELSE <<stages.sav>> >>
        n == Len(stages.out.ran)
    IN  /\ n \in 1..4
        /\ stages.out.ran = SubSeq(order, 1, n)
        /\ \A k \in 1..(n - 1) : errs[k] = <<>>
        /\ n < 4 => errs[n] # <<>>
        /\ stages.out.Errors = errs[n]
        /\ stages.out.saved = (n = 4)
        /\ (errs[1] # <<>> \/ errs[2] # <<>>) => ~stages.out.saved

\* a row was run whose initialization returned record-not-found and whose
\* validation returned two errors, with a commit and a save that would fail
C17_Witness ==
  /\ stages.called
  /\ stages.init = "ErrProcessorRecordNotFound"
  /\ Len(stages.val) = 2
  /\ stages.com # <<>>
  /\ stages.sav # "nil"
  /\ stages.out.Errors = stages.val

(***************************************************************************)
(* C18.  The WaitGroup is set to the number of row goroutines the file     *)
(* calls for: wait.Add does not panic, the counter is never negative, and  *)
(* it always equals the number of data rows whose goroutine has not yet    *)
(* called wait.Done(), so that it is zero exactly when the last one has.   *)
(***************************************************************************)
C18_BarrierCount ==
  /\ mainpc # "panic"
  /\ wait >= 0
  /\ mainpc \notin {"import", "returned", "start", "panic"} =>
       wait = Cardinality(RowIds) - Cardinality({id \in Launched : Finished(id)})

(***************************************************************************)
(* C19.  With a caller that receives from the status channel only after    *)
(* the job's signal, the job still comes to its signal: when the barrier   *)
(* was set to the number of data rows and nothing has panicked, the        *)
(* program is never at rest with neither Done nor Error delivered.         *)
(***************************************************************************)
C19_NoBackPressureHang ==
  (/\ caller = "awaits"
   /\ mainpc \notin {"import", "returned"}
   /\ ~crashed
   /\ fi.TotalLines - 1 = Cardinality(RowIds)
   /\ ~(ENABLED Next))
  => doneRecv + Len(errRecv) > 0

(***************************************************************************)
(* C20.  The Sheet of every ImportStatus on the status stream is the name  *)
(* of the sheet that holds the row it reports.                             *)
(***************************************************************************)
C20_SheetAttribution ==
  \A st \in Statuses : st.Sheet = xf[st.Row[1]].Name

====
